---- MODULE Spec2Model ----
(***************************************************************************)
(* Model of the PDP upload service of src/main.go: the request handlers    *)
(* that stage an uploaded file, invoke the external pdptool commands       *)
(* (create-proof-set, get-proof-set-create-status, upload-file, add-roots) *)
(* and record the result in the Postgres tables.                           *)
(*                                                                         *)
(* One behaviour follows one HTTP request from its arrival to the return   *)
(* of its handler.  The tables survive across runs of the server (they are *)
(* created with CREATE TABLE IF NOT EXISTS), so the initial state draws    *)
(* their content from the stores earlier requests can have left behind.    *)
(***************************************************************************)
EXTENDS Integers, Sequences, FiniteSets, TLC

(***************************************************************************)
(* Bounds of the model.                                                    *)
(***************************************************************************)
\* most status polls that report "pending" before one reports "created"
MaxPending == 2

(***************************************************************************)
(* Go string functions used by the handlers (strings, 1-indexed here).     *)
(***************************************************************************)
Char(s, i) == SubSeq(s, i, i)

Drop(s, n) == SubSeq(s, n + 1, Len(s))

Take(s, n) == SubSeq(s, 1, n)

\* strings.HasPrefix
HasPrefix(s, p) == Len(p) <= Len(s) /\ Take(s, Len(p)) = p

\* strings.HasSuffix
HasSuffix(s, p) == Len(p) <= Len(s) /\ Drop(s, Len(s) - Len(p)) = p

\* the 1-based positions of s at which sub starts
Occurrences(s, sub) ==
  { p \in 1..(Len(s) - Len(sub) + 1) : SubSeq(s, p, p + Len(sub) - 1) = sub }

\* strings.Index: 0-based position of the first occurrence, -1 when absent
Index(s, sub) ==
  LET occ == Occurrences(s, sub)
  IN  IF occ = {} THEN -1
      ELSE (CHOOSE p \in occ : \A q \in occ : p <= q) - 1

\* strings.Contains
Contains(s, sub) == Index(s, sub) >= 0

UpperLetters == "ABCDEFGHIJKLMNOPQRSTUVWXYZ"

LowerLetters == "abcdefghijklmnopqrstuvwxyz"

\* the lower-case letter of each upper-case letter
LowerOf == [c \in { Char(UpperLetters, i) : i \in 1..26 } |->
              Char(LowerLetters, Index(UpperLetters, c) + 1)]

LowerChar(c) == IF c \in DOMAIN LowerOf THEN LowerOf[c] ELSE c

\* strings.ToLower
RECURSIVE ToLower(_)
ToLower(s) ==
  IF Len(s) <= 1 THEN LowerChar(s)
  ELSE ToLower(Take(s, Len(s) \div 2)) \o ToLower(Drop(s, Len(s) \div 2))

IsSpace(c) == c \in {" ", "\n", "\t", "\r"}

\* strings.TrimLeft / TrimRight over white space
RECURSIVE TrimLeft(_)
TrimLeft(s) ==
  IF Len(s) > 0 /\ IsSpace(Char(s, 1)) THEN TrimLeft(Drop(s, 1)) ELSE s

RECURSIVE TrimRight(_)
TrimRight(s) ==
  IF Len(s) > 0 /\ IsSpace(Char(s, Len(s)))
    THEN TrimRight(Take(s, Len(s) - 1)) ELSE s

\* strings.TrimSpace
TrimSpace(s) == TrimRight(TrimLeft(s))

\* strings.Split(s, "\n")
RECURSIVE SplitLines(_)
SplitLines(s) ==
  LET nl == Index(s, "\n")
  IN  IF nl < 0 THEN <<s>>
      ELSE <<Take(s, nl)>> \o SplitLines(Drop(s, nl + 1))

\* strings.SplitN(s, ":", 2)[0]
BeforeColon(s) ==
  LET colon == Index(s, ":") IN IF colon < 0 THEN s ELSE Take(s, colon)

Last(q) == q[Len(q)]

(***************************************************************************)
(* Parsers of the tool's output, as written at each call site.             *)
(***************************************************************************)
LocationPrefix == "Location:"

CreatedSegment == "/pdp/proof-sets/created/"

\* orchestrateHandler, "Parse txHash", the loop over the lines from line i:
\* the first line that, trimmed, starts with "Location:" and contains the
\* segment gives the handle, and the scan stops there
RECURSIVE ScanTxHash(_, _)
ScanTxHash(lines, i) ==
  IF i > Len(lines) THEN ""
  ELSE LET line == TrimSpace(lines[i])
           idx  == Index(line, CreatedSegment)
       IN  IF HasPrefix(line, LocationPrefix) /\ idx >= 0
             THEN TrimSpace(Drop(line, idx + Len(CreatedSegment)))
             ELSE ScanTxHash(lines, i + 1)

\* the handle were the output scanned as one line
parseTxHashOneLine(out) == ScanTxHash(<<out>>, 1)

parseTxHash(out) == ScanTxHash(SplitLines(out), 1)

CreatedMarker == "proofset created: true"

IdMarker == "proofset id: "

\* the test were the output not lowered before the search
IsCreatedExact(sout) == Contains(sout, CreatedMarker)

\* orchestrateHandler, poll loop: does the status output report creation
IsCreated(sout) == Contains(ToLower(sout), CreatedMarker)

\* the identifier were the rest of the output taken, not the rest of the line
parseProofSetIDToEnd(sout) ==
  LET idx == Index(ToLower(sout), IdMarker)
  IN  IF idx < 0 THEN "" ELSE TrimSpace(Drop(sout, idx + Len(IdMarker)))

\* orchestrateHandler, poll loop: the identifier of a created proof set
\* ("" when the identifier marker is absent: proofSetID keeps its zero value)
parseProofSetID(sout) ==
  LET idx == Index(ToLower(sout), IdMarker)
  IN  IF idx < 0 THEN ""
      ELSE LET rest  == Drop(sout, idx + Len(IdMarker))
               idEnd == Index(rest, "\n")
           IN  IF idEnd < 0 THEN TrimSpace(rest)
               ELSE TrimSpace(Take(rest, idEnd))

\* uploadAndAddRootHandler / uploadFileToStorage: the whole last line
parseRootCIDLine(upOut) == TrimSpace(Last(SplitLines(TrimSpace(upOut))))

\* orchestrateHandler: the last line cut before its first colon
parseRootCIDColon(uOut) == BeforeColon(Last(SplitLines(TrimSpace(uOut))))

EncSuffix == ".enc"

\* strings.HasSuffix(strings.ToLower(header.Filename), ".enc")
IsEncrypted(filename) == HasSuffix(ToLower(filename), EncSuffix)

TransientMessage == "not found or does not belong to service"

\* the retry test of the add-roots loops
IsTransient(arOut) == Contains(arOut, TransientMessage)

(***************************************************************************)
(* The requests, and the results the external tool and the store can give. *)
(***************************************************************************)
BindOnly == "uploadAndAddRootHandler"

Typed == {"uploadAndAddPaperHandler", "uploadAndAddGenomeHandler",
          "uploadAndAddSpectrumHandler"}

FullFlow == "orchestrateHandler"

UploadOnly == "uploadFileHandler"

Handlers == {BindOnly, FullFlow, UploadOnly} \cup Typed

\* the typed table a handler inserts into
TableOf(h) ==
  CASE h = "uploadAndAddPaperHandler"    -> "paper"
    [] h = "uploadAndAddGenomeHandler"   -> "genome"
    [] h = "uploadAndAddSpectrumHandler" -> "spectrum"

Tables == {"paper", "genome", "spectrum"}

Filenames == {"a.txt", "B.Enc"}

\* The form of a request: the fields a handler does not read are fixed.
\*   formOK   ParseMultipartForm succeeded (typed handlers)
\*   metaOK   the required title / organism / compound is non-empty
\*   jsonOK   the spectrum metadata is empty or valid JSON
\*   hasFile  the multipart part "file" is present
RequestInputs ==
  { r \in [handler : Handlers, filename : Filenames, proofSetID : {"", "ps1"},
           formOK : BOOLEAN, metaOK : BOOLEAN, jsonOK : BOOLEAN,
           hasFile : BOOLEAN] :
      /\ r.handler \notin Typed => r.formOK /\ r.metaOK
      /\ r.handler # "uploadAndAddSpectrumHandler" => r.jsonOK
      /\ r.handler \in {FullFlow, UploadOnly} => r.proofSetID = ""
      /\ ~r.hasFile => r.filename = "a.txt" }

Result(ok, out) == [ok |-> ok, out |-> out]

CreateResults ==
  { Result(FALSE, "create error"),
    Result(TRUE, "Location: /pdp/proof-sets/created/0xabc\n"),
    Result(TRUE, "dbg\n Location: http://h/pdp/proof-sets/created/ 0xdef \nLocation: /pdp/proof-sets/created/0xabc"),
    Result(FALSE, "Location: /pdp/proof-sets/created/0xbad\nexit status 1"),
    Result(TRUE, "created"),
    Result(TRUE, "Location: /pdp/proof-sets/created/") }

StatusResults ==
  { Result(TRUE, "ProofSet Created: false\n"),
    Result(FALSE, "status error"),
    Result(TRUE, "ProofSet Created: true\nProofSet Id: 7\n"),
    Result(TRUE, "proofset id:  42 \nPROOFSET CREATED: TRUE"),
    Result(FALSE, "ProofSet Created: true\nProofSet Id: 9"),
    Result(TRUE, "ProofSet Created: true\n"),
    Result(TRUE, "ProofSet Created: true\nProofSet Id: \n") }

UploadResults ==
  { Result(FALSE, "upload error"),
    Result(TRUE, "c1"),
    Result(TRUE, "up\n c2\n"),
    Result(TRUE, "c1:9"),
    Result(TRUE, "\n") }

AddRootsResults ==
  { Result(TRUE, "added\n"),
    Result(FALSE, "root not found or does not belong to service"),
    Result(FALSE, "proof set not found or does not belong to service\n"),
    Result(FALSE, "connection refused") }

\* the rows earlier requests can have left in the store
InitialStores ==
  { [file_cids |-> <<>>, typed |-> [t \in Tables |-> {}]],
    [file_cids |-> <<[filename |-> "old.txt", cid |-> "c1"]>>,
     typed |-> [t \in Tables |-> {"c1"}]] }

\* a file of the temporary directory that belongs to nobody in the model
OtherFile == "pdp-upload-0"

\* the name os.CreateTemp gives the staging file of the request
NewTemp == "pdp-upload-1"

MkTempError == "open /tmp/pdp-upload-1: no space left on device"

CopyError == "unexpected EOF"

\* maxRetries of the add-roots loops
maxRetries == 3

(***************************************************************************)
(* State.                                                                  *)
(***************************************************************************)
VARIABLES
  pc,               \* position of the handler
  req,              \* the form of the request being handled
  txHash,           \* orchestrateHandler: handle parsed from create-proof-set
  proofSetID,       \* form value, or the identifier parsed while polling
  count,            \* orchestrateHandler: number of status polls made
  tmpPath,          \* name of the staging file, "" before os.CreateTemp
  rootCID,          \* content identifier parsed from upload-file
  attempt,          \* loop variable of the add-roots loops
  arOut,            \* uploadAndAddRootHandler: output of the last add-roots
  addRootsSuccess,  \* uploadAndAddRootHandler: flag set by the loop
  files,            \* names present in the temporary directory
  file_cids,        \* table file_cids: rows in insertion order
  typed,            \* tables paper, genome, spectrum: the primary keys held
  log,              \* what the request did, in order
  parse,            \* a parser applied to one output of the tool
  retry,            \* one call of retryAsync of the demo script
  reqs              \* two requests handled at the same time

\* the variables of the specifications that look at one part alone
aside == <<parse, retry, reqs>>

\* the variables of the handlers
handler == <<pc, req, txHash, proofSetID, count, tmpPath, rootCID, attempt,
             arOut, addRootsSuccess, files, file_cids, typed, log>>

vars == <<pc, req, txHash, proofSetID, count, tmpPath, rootCID, attempt,
          arOut, addRootsSuccess, files, file_cids, typed, log, aside>>

locals == <<txHash, proofSetID, count, tmpPath, rootCID, attempt, arOut,
            addRootsSuccess>>

store == <<file_cids, typed>>

(***************************************************************************)
(* Entries of the log.                                                     *)
(***************************************************************************)
NoEv == [op |-> "", name |-> "", psid |-> "", root |-> "", tx |-> "",
         path |-> "", file |-> "", ok |-> TRUE, out |-> "", n |-> 0]

\* one invocation of pdptool: newPDPCommand(...).CombinedOutput()
CmdEv(name, res) == [NoEv EXCEPT !.op = "cmd", !.name = name,
                                 !.ok = res.ok, !.out = res.out]

\* time.Sleep(secs * time.Second)
SleepEv(secs) == [NoEv EXCEPT !.op = "sleep", !.n = secs]

\* db.Exec(INSERT INTO table ...)
InsertEv(table, filename, cid, ok) ==
  [NoEv EXCEPT !.op = "insert", !.name = table, !.file = filename,
               !.root = cid, !.ok = ok]

\* os.CreateTemp, io.Copy into the staging file, os.Remove
FileEv(op, path, ok) == [NoEv EXCEPT !.op = op, !.path = path, !.ok = ok]

\* c.JSON(status, gin.H{"error": err})
ErrorEv(status, err) == [NoEv EXCEPT !.op = "respond", !.n = status,
                                     !.ok = FALSE, !.out = err]

\* c.JSON(http.StatusOK, gin.H{...})
OkEv(tx, psid, root, out) ==
  [NoEv EXCEPT !.op = "respond", !.n = 200, !.tx = tx, !.psid = psid,
               !.root = root, !.out = out]

\* no parser is under study
ParseIdle == [site |-> "", buf |-> "", stage |-> "idle", pending |-> FALSE,
              val |-> ""]

\* retryAsync is not called
RetryIdle == [attempts |-> 0, delayMs |-> 0, i |-> 0, lastError |-> "",
              pc |-> "idle", result |-> "", hist |-> <<>>]

AsideIdle == parse = ParseIdle /\ retry = RetryIdle /\ reqs = <<>>

Init ==
  /\ AsideIdle
  /\ pc = "idle"
  /\ req \in RequestInputs
  /\ txHash = ""
  /\ proofSetID = ""
  /\ count = 0
  /\ tmpPath = ""
  /\ rootCID = ""
  /\ attempt = 0
  /\ arOut = ""
  /\ addRootsSuccess = FALSE
  /\ files = {OtherFile}
  /\ \E s \in InitialStores : file_cids = s.file_cids /\ typed = s.typed
  /\ log = <<>>

(***************************************************************************)
(* The handlers, one action per step.                                      *)
(***************************************************************************)
\* the validation were the metadata of a spectrum not checked to be JSON
ValidationErrorNoJSON(r) ==
  CASE r.handler = BindOnly ->
         IF r.proofSetID = "" THEN "proofSetID is required"
         ELSE IF ~r.hasFile THEN "file is required" ELSE ""
    [] r.handler \in Typed ->
         IF ~r.formOK THEN "Failed to parse form"
         ELSE IF r.proofSetID = "" \/ ~r.metaOK
           THEN "proofSetID and " \o
                (CASE r.handler = "uploadAndAddPaperHandler"  -> "title"
                   [] r.handler = "uploadAndAddGenomeHandler" -> "organism"
                   [] OTHER -> "compound") \o " are required"
         ELSE IF ~r.hasFile THEN "file is required" ELSE ""
    [] OTHER -> IF ~r.hasFile THEN "file is required" ELSE ""

\* the message of the 400 response of the validation, "" for a valid form
ValidationError(r) ==
  CASE r.handler = BindOnly ->
         IF r.proofSetID = "" THEN "proofSetID is required"
         ELSE IF ~r.hasFile THEN "file is required" ELSE ""
    [] r.handler \in Typed ->
         IF ~r.formOK THEN "Failed to parse form"
         ELSE IF r.proofSetID = "" \/ ~r.metaOK
           THEN "proofSetID and " \o
                (CASE r.handler = "uploadAndAddPaperHandler"  -> "title"
                   [] r.handler = "uploadAndAddGenomeHandler" -> "organism"
                   [] OTHER -> "compound") \o " are required"
         ELSE IF ~r.jsonOK THEN "Invalid JSON metadata"
         ELSE IF ~r.hasFile THEN "file is required" ELSE ""
    [] OTHER -> IF ~r.hasFile THEN "file is required" ELSE ""

\* the handler reads the form; an invalid form is answered at once
Accept ==
  /\ pc = "idle"
  /\ IF ValidationError(req) # ""
       THEN /\ log' = log \o <<ErrorEv(400, ValidationError(req))>>
            /\ pc' = "return"
            /\ UNCHANGED proofSetID
       ELSE /\ log' = log
            /\ pc' = IF req.handler = FullFlow THEN "create" ELSE "mktemp"
            /\ proofSetID' = req.proofSetID
  /\ UNCHANGED <<req, txHash, count, tmpPath, rootCID, attempt, arOut,
                 addRootsSuccess, files, store>>
  /\ UNCHANGED aside

\* the branch were the empty handle not checked
createProofSetStepUnchecked(res) == IF ~res.ok THEN "failed" ELSE "poll"

\* orchestrateHandler, step 1: the branch taken on the result of
\* create-proof-set: "failed" on an error, "noTxHash" when no handle is
\* parsed from the output, "poll" otherwise
createProofSetStep(res) ==
  IF ~res.ok THEN "failed"
  ELSE IF parseTxHash(res.out) = "" THEN "noTxHash"
  ELSE "poll"

\* orchestrateHandler, step 1: create-proof-set and the parse of its output
CreateProofSet ==
  /\ pc = "create"
  /\ \E res \in CreateResults :
       LET ev   == CmdEv("create-proof-set", res)
           step == createProofSetStep(res)
       IN
       CASE step = "failed" ->
              /\ log' = log \o <<ev, ErrorEv(500, "create-proof-set failed")>>
              /\ pc' = "return"
              /\ UNCHANGED txHash
         [] step = "noTxHash" ->
              /\ log' = log \o <<ev, ErrorEv(500, "txHash parse failed")>>
              /\ pc' = "return"
              /\ txHash' = parseTxHash(res.out)
         [] step = "poll" ->
              /\ log' = log \o <<ev>>
              /\ pc' = "poll"
              /\ txHash' = parseTxHash(res.out)
  /\ UNCHANGED <<req, proofSetID, count, tmpPath, rootCID, attempt, arOut,
                 addRootsSuccess, files, store>>
  /\ UNCHANGED aside

\* orchestrateHandler, step 2: one iteration of the poll loop up to its
\* break or its sleep; the error of the status command is discarded
\* the loop were left only with an identifier in hand
pollStepIdentified(sout) ==
  IF IsCreated(sout) /\ Index(ToLower(sout), IdMarker) >= 0
    THEN "break" ELSE "sleep"

\* orchestrateHandler, poll loop: the break sits under the test of the
\* created marker alone, after the extraction of the identifier
pollStep(sout) == IF IsCreated(sout) THEN "break" ELSE "sleep"

\* the loop body's reading of each status result, worked out once: the
\* branch taken, whether the identifier is assigned, and its value
PollOutcomes ==
  { [res  |-> r,
     step |-> pollStep(r.out),
     set  |-> IsCreated(r.out) /\ Index(ToLower(r.out), IdMarker) >= 0,
     id   |-> parseProofSetID(r.out)] : r \in StatusResults }

PollStatus ==
  /\ pc = "poll"
  /\ \E o \in PollOutcomes :
       /\ o.step = "break" \/ count < MaxPending
       /\ count' = count + 1
       /\ log' = log \o <<[CmdEv("get-proof-set-create-status", o.res)
                             EXCEPT !.tx = txHash, !.n = count + 1]>>
       /\ IF o.step = "break"
            THEN /\ proofSetID' = IF o.set THEN o.id ELSE proofSetID
                 /\ pc' = "mktemp"
            ELSE /\ pc' = "pollsleep"
                 /\ UNCHANGED proofSetID
  /\ UNCHANGED <<req, txHash, tmpPath, rootCID, attempt, arOut,
                 addRootsSuccess, files, store>>
  /\ UNCHANGED aside

\* orchestrateHandler: the seconds slept between two polls
PollSeconds == 3

\* the loop were it to go on to the upload after one sleep
PollSleepGivesUp ==
  /\ pc = "pollsleep"
  /\ log' = log \o <<SleepEv(PollSeconds)>>
  /\ pc' = "mktemp"
  /\ UNCHANGED <<req, locals, files, store>>
  /\ UNCHANGED aside

\* orchestrateHandler: time.Sleep(3 * time.Second) at the end of the loop body
PollSleep ==
  /\ pc = "pollsleep"
  /\ log' = log \o <<SleepEv(PollSeconds)>>
  /\ pc' = "poll"
  /\ UNCHANGED <<req, locals, files, store>>
  /\ UNCHANGED aside

\* what the handler answers when os.CreateTemp fails
MkTempResponse(h) ==
  CASE h = BindOnly -> MkTempError
    [] h \in Typed  -> "failed to create temp file: " \o MkTempError
    [] OTHER        -> "temp file error"

\* os.CreateTemp("", "pdp-upload-*")
CreateTemp ==
  /\ pc = "mktemp"
  /\ \E ok \in BOOLEAN :
       IF ok
         THEN /\ tmpPath' = NewTemp
              /\ files' = files \cup {NewTemp}
              /\ log' = log \o <<FileEv("mktemp", NewTemp, TRUE)>>
              /\ pc' = "copy"
         ELSE /\ log' = log \o <<FileEv("mktemp", "", FALSE),
                                 ErrorEv(500, MkTempResponse(req.handler))>>
              /\ pc' = "return"
              /\ UNCHANGED <<tmpPath, files>>
  /\ UNCHANGED <<req, txHash, proofSetID, count, rootCID, attempt, arOut,
                 addRootsSuccess, store>>
  /\ UNCHANGED aside

\* io.Copy(tmpFile, file): uploadAndAddRootHandler and uploadFileToStorage
\* return on a failure (the latter removing the file by its defer);
\* orchestrateHandler and uploadFileHandler discard the error
CopyFile ==
  /\ pc = "copy"
  /\ \E ok \in BOOLEAN :
       LET ev == FileEv("copy", tmpPath, ok) IN
       CASE ~ok /\ req.handler = BindOnly ->
              /\ log' = log \o <<ev, ErrorEv(500, "Failed to copy file")>>
              /\ pc' = "return"
              /\ UNCHANGED files
         [] ~ok /\ req.handler \in Typed ->
              /\ log' = log \o <<ev, FileEv("remove", tmpPath, TRUE),
                                 ErrorEv(500, "failed to copy file: " \o CopyError)>>
              /\ files' = files \ {tmpPath}
              /\ pc' = "return"
         [] OTHER ->
              /\ log' = log \o <<ev>>
              /\ pc' = "upload"
              /\ UNCHANGED files
  /\ UNCHANGED <<req, locals, store>>
  /\ UNCHANGED aside

\* what the handler answers when upload-file fails
UploadFailedResponse(h, out) ==
  CASE h = BindOnly -> out
    [] h \in Typed  -> "upload-file failed: " \o out
    [] OTHER        -> "upload-file failed"

\* upload-file on the staging file and the parse of the content identifier;
\* uploadFileToStorage returns here (removing the file) unless it has to
\* sleep first
UploadFile ==
  /\ pc = "upload"
  /\ \E res \in UploadResults :
       LET ev  == [CmdEv("upload-file", res) EXCEPT !.path = tmpPath]
           h   == req.handler
           enc == IsEncrypted(req.filename)
           rm  == FileEv("remove", tmpPath, TRUE)
       IN
       CASE ~res.ok ->
              /\ log' = log \o <<ev>>
                            \o (IF h \in Typed THEN <<rm>> ELSE <<>>)
                            \o <<ErrorEv(500, UploadFailedResponse(h, res.out))>>
              /\ files' = IF h \in Typed THEN files \ {tmpPath} ELSE files
              /\ pc' = "return"
              /\ UNCHANGED <<rootCID, attempt>>
         [] res.ok /\ h = UploadOnly ->
              /\ log' = log \o <<ev, OkEv("", "", "", res.out)>>
              /\ pc' = "return"
              /\ UNCHANGED <<rootCID, attempt, files>>
         [] res.ok /\ h = BindOnly ->
              /\ log' = log \o <<ev>>
              /\ rootCID' = parseRootCIDLine(res.out)
              /\ pc' = IF enc THEN "settle" ELSE "bind"
              /\ attempt' = IF enc THEN attempt ELSE 1
              /\ UNCHANGED files
         [] res.ok /\ h \in Typed ->
              /\ rootCID' = parseRootCIDLine(res.out)
              /\ IF enc
                   THEN /\ log' = log \o <<ev>>
                        /\ pc' = "settle"
                        /\ UNCHANGED <<files, attempt>>
                   ELSE /\ log' = log \o <<ev, rm>>
                        /\ files' = files \ {tmpPath}
                        /\ pc' = "bind"
                        /\ attempt' = 1
         [] res.ok /\ h = FullFlow ->
              /\ log' = log \o <<ev>>
              /\ rootCID' = parseRootCIDColon(res.out)
              /\ pc' = "bind"
              /\ attempt' = 1
              /\ UNCHANGED files
  /\ UNCHANGED <<req, txHash, proofSetID, count, tmpPath, arOut,
                 addRootsSuccess, store>>
  /\ UNCHANGED aside

\* the 3 second sleep after the upload of an encrypted file; in the typed
\* handlers uploadFileToStorage then returns and its defer removes the file
SettleSleep ==
  /\ pc = "settle"
  /\ IF req.handler \in Typed
       THEN /\ log' = log \o <<SleepEv(3), FileEv("remove", tmpPath, TRUE)>>
            /\ files' = files \ {tmpPath}
       ELSE /\ log' = log \o <<SleepEv(3)>>
            /\ UNCHANGED files
  /\ pc' = "bind"
  /\ attempt' = 1
  /\ UNCHANGED <<req, txHash, proofSetID, count, tmpPath, rootCID, arOut,
                 addRootsSuccess, store>>
  /\ UNCHANGED aside

\* the loop body were it to sleep and retry on the last attempt as well
addRootToProofSetRetryLast(res, k) ==
  IF res.ok THEN "ok"
  ELSE IF IsTransient(res.out) THEN "backoff"
  ELSE "fail"

\* addRootToProofSet: what the loop body does with the result of attempt k
\*   "ok" return nil, "backoff" sleep and continue, "fail" return the error
addRootToProofSet(res, k) ==
  IF res.ok THEN "ok"
  ELSE IF IsTransient(res.out) /\ k < maxRetries THEN "backoff"
  ELSE "fail"

\* the inline loop body were its return on the last attempt missing
inlineAddRootsNoReturn(res, k) ==
  IF res.ok THEN "ok"
  ELSE IF IsTransient(res.out) /\ k < maxRetries THEN "backoff"
  ELSE "again"

\* uploadAndAddRootHandler: what the inline loop body does with the result
\* of attempt k; a failure that is neither retried with a sleep nor on the
\* last attempt falls out of the if and the for statement goes on ("again")
inlineAddRoots(res, k) ==
  IF res.ok THEN "ok"
  ELSE IF IsTransient(res.out) /\ k < maxRetries THEN "backoff"
  ELSE IF k = maxRetries THEN "fail"
  ELSE "again"

\* orchestrateHandler, step 4: a single invocation
orchestrateAddRoots(res, k) == IF res.ok THEN "ok" ELSE "fail"

\* the bind step of a handler
BindStep(h, res, k) ==
  CASE h = BindOnly -> inlineAddRoots(res, k)
    [] h \in Typed  -> addRootToProofSet(res, k)
    [] OTHER        -> orchestrateAddRoots(res, k)

\* what the handler answers when the bind step fails
BindFailedResponse(h, out) ==
  CASE h = BindOnly -> out
    [] h \in Typed  -> "add-roots failed: " \o out
    [] OTHER        -> "add-roots failed"

\* one add-roots invocation and the branch taken on its result
AddRoots ==
  /\ pc = "bind"
  /\ attempt <= maxRetries
  /\ \E res \in AddRootsResults :
       LET ev   == [CmdEv("add-roots", res) EXCEPT !.psid = proofSetID,
                                                   !.root = rootCID,
                                                   !.n = attempt]
           h    == req.handler
           step == BindStep(h, res, attempt)
       IN
       /\ arOut' = IF h = BindOnly THEN res.out ELSE arOut
       /\ CASE step = "ok" /\ h = FullFlow ->
                 /\ log' = log \o <<ev, OkEv(txHash, proofSetID, rootCID,
                                             TrimSpace(res.out))>>
                 /\ pc' = "return"
                 /\ UNCHANGED <<attempt, addRootsSuccess>>
            [] step = "ok" /\ h = BindOnly ->
                 /\ log' = log \o <<ev>>
                 /\ addRootsSuccess' = TRUE
                 /\ pc' = "insert_file_cids"
                 /\ UNCHANGED attempt
            [] step = "ok" /\ h \in Typed ->
                 /\ log' = log \o <<ev>>
                 /\ pc' = "insert_typed"
                 /\ UNCHANGED <<attempt, addRootsSuccess>>
            [] step = "backoff" ->
                 /\ log' = log \o <<ev>>
                 /\ pc' = "backoff"
                 /\ UNCHANGED <<attempt, addRootsSuccess>>
            [] step = "again" ->
                 /\ log' = log \o <<ev>>
                 /\ attempt' = attempt + 1
                 /\ pc' = "bind"
                 /\ UNCHANGED addRootsSuccess
            [] step = "fail" ->
                 /\ log' = log \o <<ev, ErrorEv(500, BindFailedResponse(h, res.out))>>
                 /\ pc' = "return"
                 /\ UNCHANGED <<attempt, addRootsSuccess>>
  /\ UNCHANGED <<req, txHash, proofSetID, count, tmpPath, rootCID, files,
                 store>>
  /\ UNCHANGED aside

\* the delay were it the same 2 seconds before every attempt
BackoffSecondsFlat(k) == 2

\* the delay before the next attempt: time.Duration(attempt*2) * time.Second
BackoffSeconds(k) == k * 2

\* the retry branch were it to start over from the upload
BackoffReupload ==
  /\ pc = "backoff"
  /\ log' = log \o <<SleepEv(BackoffSeconds(attempt))>>
  /\ attempt' = attempt + 1
  /\ pc' = "upload"
  /\ UNCHANGED <<req, txHash, proofSetID, count, tmpPath, rootCID, arOut,
                 addRootsSuccess, files, store>>
  /\ UNCHANGED aside

\* time.Sleep of the retry branch, then continue: attempt++
Backoff ==
  /\ pc = "backoff"
  /\ log' = log \o <<SleepEv(BackoffSeconds(attempt))>>
  /\ attempt' = attempt + 1
  /\ pc' = "bind"
  /\ UNCHANGED <<req, txHash, proofSetID, count, tmpPath, rootCID, arOut,
                 addRootsSuccess, files, store>>
  /\ UNCHANGED aside

\* the branch were a failed typed insert only logged
insertTypedStepLogged(ok) == "insert_file_cids"

\* typed handlers: where the handler goes after the INSERT into its typed
\* table: on to the file_cids insert, or to the return after a 500
insertTypedStep(ok) == IF ok THEN "insert_file_cids" ELSE "return"

\* typed handlers: INSERT INTO paper / genome / spectrum (cid is the primary
\* key, so a stored cid is rejected)
InsertTyped ==
  /\ pc = "insert_typed"
  /\ \E ok \in BOOLEAN :
       LET t  == TableOf(req.handler)
           ev == InsertEv(t, "", rootCID, ok)
       IN
       /\ rootCID \in typed[t] => ~ok
       /\ typed' = IF ok THEN [typed EXCEPT ![t] = @ \cup {rootCID}] ELSE typed
       /\ pc' = insertTypedStep(ok)
       /\ log' = IF insertTypedStep(ok) = "return"
                   THEN log \o <<ev, ErrorEv(500, "Failed to save " \o t \o " metadata")>>
                   ELSE log \o <<ev>>
  /\ UNCHANGED <<req, locals, files, file_cids>>
  /\ UNCHANGED aside

\* the last step were its answer to leave the content identifier out
InsertFileCidsNoRoot ==
  /\ pc = "insert_file_cids"
  /\ \E ok \in BOOLEAN :
       /\ file_cids' = IF ok
                         THEN Append(file_cids, [filename |-> req.filename,
                                                 cid |-> rootCID])
                         ELSE file_cids
       /\ log' = log \o <<InsertEv("file_cids", req.filename, rootCID, ok),
                          OkEv("", proofSetID, "",
                               IF req.handler = BindOnly
                                 THEN TrimSpace(arOut) ELSE "")>>
  /\ pc' = "return"
  /\ UNCHANGED <<req, locals, files, typed>>
  /\ UNCHANGED aside

\* INSERT INTO file_cids (filename, cid); a failure is only logged, and the
\* handler answers 200 either way
InsertFileCids ==
  /\ pc = "insert_file_cids"
  /\ \E ok \in BOOLEAN :
       /\ file_cids' = IF ok
                         THEN Append(file_cids, [filename |-> req.filename,
                                                 cid |-> rootCID])
                         ELSE file_cids
       /\ log' = log \o <<InsertEv("file_cids", req.filename, rootCID, ok),
                          OkEv("", proofSetID, rootCID,
                               IF req.handler = BindOnly
                                 THEN TrimSpace(arOut) ELSE "")>>
  /\ pc' = "return"
  /\ UNCHANGED <<req, locals, files, typed>>
  /\ UNCHANGED aside

\* the handlers were the defer missing where the io.Copy error is dropped
RemovesOnReturnBindOnly(h) == h = BindOnly

\* the handlers whose own defer removes the staging file
RemovesOnReturn(h) == h \in {BindOnly, FullFlow, UploadOnly}

\* the handler returns: its deferred os.Remove(tmpPath) runs
HandlerReturn ==
  /\ pc = "return"
  /\ IF RemovesOnReturn(req.handler) /\ tmpPath # ""
       THEN /\ files' = files \ {tmpPath}
            /\ log' = log \o <<FileEv("remove", tmpPath, TRUE)>>
       ELSE UNCHANGED <<files, log>>
  /\ pc' = "done"
  /\ UNCHANGED <<req, locals, store>>
  /\ UNCHANGED aside

Next ==
  \/ Accept
  \/ CreateProofSet
  \/ PollStatus
  \/ PollSleep
  \/ CreateTemp
  \/ CopyFile
  \/ UploadFile
  \/ SettleSleep
  \/ AddRoots
  \/ Backoff
  \/ InsertTyped
  \/ InsertFileCids
  \/ HandlerReturn

Spec == Init /\ [][Next]_vars

\* every command, store call and sleep returns, so a handler that can take
\* a step takes it
SpecFair == Spec /\ WF_vars(Next)

(***************************************************************************)
(* Reading the log.                                                        *)
(***************************************************************************)
Idx == 1..Len(log)

IsCmd(e, name) == e.op = "cmd" /\ e.name = name

CmdsAt(name) == { i \in Idx : IsCmd(log[i], name) }

AddRootsAt == CmdsAt("add-roots")

\* the add-roots invocations of the request, in order
AddRootsSeq == SelectSeq(log, LAMBDA e : IsCmd(e, "add-roots"))

\* the add-roots invocation at position i of the log is the k-th one
Ordinal(i) == Cardinality({ j \in AddRootsAt : j <= i })

IsSleep(e) == e.op = "sleep"

IsErrorResponse(e) == e.op = "respond" /\ ~e.ok

IsOkResponse(e) == e.op = "respond" /\ e.ok /\ e.n = 200

RespondedOk == \E i \in Idx : IsOkResponse(log[i])

RespondedError == \E i \in Idx : IsErrorResponse(log[i])

\* a failed add-roots whose output carries the retryable message
TransientFailure(e) == ~e.ok /\ Contains(e.out, "not found or does not belong to service")

\* a failed add-roots whose output does not carry it
OtherFailure(e) == ~e.ok /\ ~Contains(e.out, "not found or does not belong to service")

\* the handlers that bind under the retry loop
Binders == {BindOnly} \cup Typed

\* the bind step of the request is over
BindOver == AddRootsAt # {} /\ pc \notin {"bind", "backoff"}

\* the binder reported a failure: an error response follows an add-roots
BindFailed == \E i \in AddRootsAt : i < Len(log) /\ IsErrorResponse(log[i + 1])

BindSucceeded == BindOver /\ ~BindFailed

\* The parsers tabulated once over the outputs the tool can give, so that a
\* formula over the log looks a result up instead of parsing it again.
TxHashOf == [o \in { r.out : r \in CreateResults } |-> parseTxHash(o)]

ReportsCreated ==
  { o \in { r.out : r \in StatusResults } :
      Contains(ToLower(o), "proofset created: true") }

CarriesId ==
  { o \in { r.out : r \in StatusResults } :
      Contains(ToLower(o), "proofset id: ") }

ProofSetIDOf == [o \in { r.out : r \in StatusResults } |-> parseProofSetID(o)]

RootLineOf == [o \in { r.out : r \in UploadResults } |-> parseRootCIDLine(o)]

RootColonOf == [o \in { r.out : r \in UploadResults } |-> parseRootCIDColon(o)]

Smallest(S) == CHOOSE i \in S : \A j \in S : i <= j

(***************************************************************************)
(* C1: the binder invokes add-roots exactly min(3, index of the first      *)
(* attempt that succeeds or fails without the transient message) times, it *)
(* reports success iff that last attempt succeeded, and after three        *)
(* transient failures the reported error carries the output of the third.  *)
(* Fails in uploadAndAddRootHandler, whose loop goes on after a failure    *)
(* without the transient message on attempts 1 and 2.                      *)
(***************************************************************************)
C1_BindAttempts ==
  LET ar       == AddRootsSeq
      decisive == { k \in 1..Len(ar) : ar[k].ok \/ OtherFailure(ar[k]) }
      stop     == IF decisive = {} \/ Smallest(decisive \cup {3}) = 3
                    THEN 3 ELSE Smallest(decisive)
  IN  req.handler \in Binders =>
        /\ Len(ar) <= stop
        /\ BindOver =>
             /\ Len(ar) = stop
             /\ BindSucceeded <=> ar[Len(ar)].ok
             /\ (Len(ar) = 3 /\ \A k \in 1..3 : TransientFailure(ar[k])) =>
                  \E i \in Idx : /\ IsErrorResponse(log[i])
                                 /\ Contains(log[i].out, ar[3].out)

(***************************************************************************)
(* C2: after the first add-roots, a sleep occurs only directly after a     *)
(* transiently failed k-th invocation with k < 3, lasts 2*k seconds and is *)
(* followed by the next invocation; a retried transient failure is always  *)
(* followed by that sleep; so transient, transient, success gives success  *)
(* after exactly two sleeps of 2 and 4 seconds.                            *)
(***************************************************************************)
C2_BackoffSchedule ==
  /\ \A i \in Idx :
       (IsSleep(log[i]) /\ \E j \in AddRootsAt : j < i) =>
         /\ (i - 1) \in AddRootsAt
         /\ TransientFailure(log[i - 1])
         /\ Ordinal(i - 1) < 3
         /\ log[i].n = 2 * Ordinal(i - 1)
         /\ i < Len(log) => (i + 1) \in AddRootsAt
  /\ \A i \in AddRootsAt :
       (req.handler \in Binders /\ TransientFailure(log[i])
          /\ Ordinal(i) < 3 /\ i < Len(log)) => log[i + 1] = SleepEv(2 * Ordinal(i))
  /\ LET ar == AddRootsSeq
         sl == { i \in Idx : IsSleep(log[i]) /\ \E j \in AddRootsAt : j < i }
     IN  (Len(ar) = 3 /\ TransientFailure(ar[1]) /\ TransientFailure(ar[2])
            /\ ar[3].ok) =>
           /\ BindSucceeded
           /\ Cardinality(sl) = 2
           /\ \E i, j \in sl : i < j /\ log[i].n = 2 /\ log[j].n = 4

\* the bind failed twice with the transient message, then succeeded
C2_Witness ==
  LET ar == AddRootsSeq
  IN  /\ Len(ar) = 3
      /\ TransientFailure(ar[1]) /\ TransientFailure(ar[2]) /\ ar[3].ok
      /\ RespondedOk

(***************************************************************************)
(* C3: on every bind path a failed add-roots whose output lacks the        *)
(* transient message is reported at once and is the last add-roots of the  *)
(* request.  Fails in uploadAndAddRootHandler on attempts 1 and 2.         *)
(***************************************************************************)
C3_TerminalFailure ==
  \A i \in AddRootsAt :
    OtherFailure(log[i]) =>
      /\ \A j \in AddRootsAt : j <= i
      /\ i < Len(log) => IsErrorResponse(log[i + 1])

(***************************************************************************)
(* C4: every add-roots is preceded by a successful upload-file whose       *)
(* output yields the --root passed; in the full flow upload-file comes     *)
(* after a status output with the created marker, and every status poll    *)
(* after a successful create-proof-set from which a handle was parsed.     *)
(***************************************************************************)
C4_StepOrdering ==
  /\ \A i \in AddRootsAt :
       \E j \in CmdsAt("upload-file") :
         /\ j < i
         /\ log[j].ok
         /\ log[i].root = IF req.handler = FullFlow
                            THEN RootColonOf[log[j].out]
                            ELSE RootLineOf[log[j].out]
  /\ req.handler = FullFlow =>
       /\ \A i \in CmdsAt("upload-file") :
            \E j \in CmdsAt("get-proof-set-create-status") :
              j < i /\ log[j].out \in ReportsCreated
       /\ \A i \in CmdsAt("get-proof-set-create-status") :
            \E j \in CmdsAt("create-proof-set") :
              /\ j < i
              /\ log[j].ok
              /\ TxHashOf[log[j].out] # ""
              /\ log[i].tx = TxHashOf[log[j].out]

\* a full flow that created, polled, uploaded and bound
C4_Witness ==
  /\ req.handler = FullFlow
  /\ pc = "done"
  /\ AddRootsAt # {}
  /\ Cardinality(CmdsAt("get-proof-set-create-status")) >= 2

InsertsAt(table) == { i \in Idx : log[i].op = "insert" /\ log[i].name = table }

TypedInsertsAt == { i \in Idx : log[i].op = "insert" /\ log[i].name \in Tables }

\* the content identifier the handler reads from an upload-file output
RootOf(h, out) == IF h = FullFlow THEN RootColonOf[out] ELSE RootLineOf[out]

(***************************************************************************)
(* C5: a request of the full flow or of a bind-only flow that responds     *)
(* with success has attempted exactly one INSERT of {display filename,     *)
(* content identifier of the upload} into file_cids before the response,   *)
(* the row is stored when the store accepted it, and no request inserts a  *)
(* second mapping.  Fails in orchestrateHandler, which inserts nothing.    *)
(***************************************************************************)
C5_MappingPersisted ==
  /\ Cardinality(InsertsAt("file_cids")) <= 1
  /\ \A r \in Idx :
       (IsOkResponse(log[r]) /\ req.handler # UploadOnly) =>
         \E i \in InsertsAt("file_cids") :
           /\ i < r
           /\ log[i].file = req.filename
           /\ \E u \in CmdsAt("upload-file") :
                log[u].ok /\ log[i].root = RootOf(req.handler, log[u].out)
           /\ log[i].ok =>
                (Len(file_cids) > 0 /\
                 Last(file_cids) = [filename |-> log[i].file, cid |-> log[i].root])

C7_TempFileRemoved ==
  pc = "done" =>
    \A i \in Idx : (log[i].op = "mktemp" /\ log[i].ok) => log[i].path \notin files

\* a request that staged a file and ended in an error response
C7_Witness ==
  /\ pc = "done"
  /\ \E i \in Idx : log[i].op = "mktemp" /\ log[i].ok
  /\ RespondedError
  /\ req.handler = UploadOnly

(***************************************************************************)
(* C8: in every flow that uploads and then binds, a 3 second sleep lies    *)
(* between the successful upload-file and the first add-roots iff the      *)
(* display filename ends in ".enc" (case-insensitively), and no sleep      *)
(* follows a failed upload-file.  Fails in orchestrateHandler, which never *)
(* sleeps between upload and bind.                                         *)
(***************************************************************************)
C8_SettleDelay ==
  \A u \in CmdsAt("upload-file") :
    LET enc    == HasSuffix(ToLower(req.filename), ".enc")
        settle == { i \in Idx : /\ u < i
                                /\ IsSleep(log[i])
                                /\ \A j \in AddRootsAt : i < j }
    IN  req.handler # UploadOnly =>
          /\ ~log[u].ok => \A i \in Idx : u < i => ~IsSleep(log[i])
          /\ ~enc => settle = {}
          /\ (enc /\ AddRootsAt # {}) =>
               /\ log[u].ok
               /\ Cardinality(settle) = 1
               /\ \A i \in settle : log[i].n = 3

(***************************************************************************)
(* C9: every status poll carries the handle parsed from the create output; *)
(* a poll without the created marker is followed by a 3 second sleep and   *)
(* then by the next poll; the poll with the marker is the last one, is not *)
(* followed by a sleep, comes after exactly as many sleeps as pending      *)
(* polls, and, when it carries an identifier marker, its identifier is the *)
(* --proof-set-id of add-roots and the proofSetID of the response          *)
(* (pending, pending, created / id 7: three polls, identifier "7").        *)
(***************************************************************************)
C9_PollCount ==
  LET st      == CmdsAt("get-proof-set-create-status")
      created == { i \in st : log[i].out \in ReportsCreated }
  IN  /\ \A i \in st :
            /\ log[1].op = "cmd" /\ log[1].name = "create-proof-set"
            /\ log[i].tx = TxHashOf[log[1].out]
      /\ \A i \in st \ created :
            /\ i < Len(log) => log[i + 1] = SleepEv(3)
            /\ i + 1 < Len(log) => (i + 2) \in st
      /\ \A i \in created :
            /\ \A j \in st : j <= i
            /\ i < Len(log) => ~IsSleep(log[i + 1])
            /\ Cardinality({ j \in Idx : j < i /\ IsSleep(log[j]) })
                 = Cardinality(st) - 1
            /\ log[i].out \in CarriesId =>
                 LET id == ProofSetIDOf[log[i].out] IN
                 /\ proofSetID = id
                 /\ \A a \in AddRootsAt : log[a].psid = id
                 /\ \A r \in Idx : IsOkResponse(log[r]) => log[r].psid = id
            /\ log[i].out = "ProofSet Created: true\nProofSet Id: 7\n" =>
                 proofSetID = "7"
            /\ log[i].out = "proofset id:  42 \nPROOFSET CREATED: TRUE" =>
                 proofSetID = "42"

\* pending, pending, created / id 7, answered with proofSetID "7"
C9_Witness ==
  LET st == CmdsAt("get-proof-set-create-status")
  IN  /\ Cardinality(st) = 3
      /\ \E i \in st : log[i].out = "ProofSet Created: true\nProofSet Id: 7\n"
      /\ \E r \in Idx : IsOkResponse(log[r]) /\ log[r].psid = "7"

(***************************************************************************)
(* C10: after a step failed terminally (create-proof-set failed or gave no *)
(* handle, upload-file failed, add-roots failed without the transient      *)
(* message or for the third time) the request emits an error response and  *)
(* runs no further command and no insert; every insert follows a           *)
(* successful add-roots; the tables only grow by the rows inserted.        *)
(* Fails in uploadAndAddRootHandler, which invokes add-roots again after a *)
(* failure without the transient message (see C3).                         *)
(***************************************************************************)
C10_AbortOnTerminalFailure ==
  LET terminal ==
        { i \in Idx :
            \/ IsCmd(log[i], "create-proof-set")
                 /\ (~log[i].ok \/ TxHashOf[log[i].out] = "")
            \/ IsCmd(log[i], "upload-file") /\ ~log[i].ok
            \/ IsCmd(log[i], "add-roots")
                 /\ (OtherFailure(log[i])
                       \/ (TransientFailure(log[i]) /\ Ordinal(i) = 3)) }
  IN  /\ \A i \in terminal :
            /\ \E j \in Idx : j > i /\ IsErrorResponse(log[j])
            /\ \A j \in Idx : j > i => log[j].op \notin {"cmd", "insert"}
            /\ ~RespondedOk
      /\ \A i \in Idx :
            log[i].op = "insert" => \E j \in AddRootsAt : j < i /\ log[j].ok
      /\ \E s \in InitialStores :
            LET stored == SelectSeq(log, LAMBDA e : /\ e.op = "insert"
                                                    /\ e.name = "file_cids"
                                                    /\ e.ok)
            IN  /\ file_cids = s.file_cids \o
                      [k \in 1..Len(stored) |->
                         [filename |-> stored[k].file, cid |-> stored[k].root]]
                /\ \A t \in Tables :
                      typed[t] = s.typed[t] \cup
                        { log[m].root : m \in { n \in InsertsAt(t) : log[n].ok } }

(***************************************************************************)
(* C11: a request without the file part, or to a bind-only endpoint        *)
(* without proofSetID, without the required metadata field or with invalid *)
(* spectrum JSON, is answered with an error response; no staging file is   *)
(* created, no command is invoked and nothing is inserted.                 *)
(***************************************************************************)
C11_ValidationFirst ==
  LET invalid ==
        \/ ~req.hasFile
        \/ req.handler \in Binders /\ req.proofSetID = ""
        \/ req.handler \in Typed /\ ~req.metaOK
        \/ req.handler = "uploadAndAddSpectrumHandler" /\ ~req.jsonOK
  IN  invalid =>
        /\ \A i \in Idx : IsErrorResponse(log[i]) /\ log[i].n = 400
        /\ Len(log) <= 1
        /\ pc # "idle" => RespondedError
        /\ tmpPath = ""
        /\ files = {OtherFile}
        /\ \E s \in InitialStores :
              file_cids = s.file_cids /\ typed = s.typed

\* a spectrum upload, complete but for its metadata not being JSON, answered
C11_Witness ==
  /\ pc = "done"
  /\ req.handler = "uploadAndAddSpectrumHandler"
  /\ req.hasFile /\ req.formOK /\ req.metaOK /\ req.proofSetID # ""
  /\ ~req.jsonOK
  /\ Len(log) = 1
  /\ IsErrorResponse(log[1]) /\ log[1].out = "Invalid JSON metadata"

(***************************************************************************)
(* C12: in the full flow and in the bind-only flow, an error response      *)
(* caused by a failed create-proof-set, upload-file or add-roots, or by a  *)
(* create-proof-set output without a handle, carries in its error field    *)
(* the combined output of that command.                                    *)
(* Fails in orchestrateHandler, which answers fixed texts.                 *)
(***************************************************************************)
C12_ErrorCarriesOutput ==
  LET failing(c) ==
        \/ log[c].op = "cmd" /\ ~log[c].ok
               /\ log[c].name \in {"create-proof-set", "upload-file", "add-roots"}
        \/ IsCmd(log[c], "create-proof-set") /\ TxHashOf[log[c].out] = ""
      \* the response at r reports the command at c: only the removal of
      \* the staging file lies between them
      causes(c, r) ==
        /\ c < r
        /\ failing(c)
        /\ IsErrorResponse(log[r])
        /\ \A j \in Idx : c < j /\ j < r => log[j].op = "remove"
  IN  req.handler \in Binders \cup {FullFlow} =>
        \A c, r \in Idx : causes(c, r) => Contains(log[r].out, log[c].out)

(***************************************************************************)
(* C13: in orchestrateHandler an add-roots failure carrying the transient  *)
(* message, on attempt 1 or 2, is not reported: the backoff delay and      *)
(* another add-roots invocation follow it.                                 *)
(* Fails: orchestrateHandler invokes add-roots once and reports any        *)
(* failure at once.                                                        *)
(***************************************************************************)
C13_FullFlowRetries ==
  req.handler = FullFlow =>
    \A i \in AddRootsAt :
      TransientFailure(log[i]) /\ Ordinal(i) < maxRetries /\ i < Len(log) =>
        /\ ~IsErrorResponse(log[i + 1])
        /\ log[i + 1] = SleepEv(2 * Ordinal(i))
        /\ i + 1 < Len(log) => IsCmd(log[i + 2], "add-roots")

(***************************************************************************)
(* C14: in the full flow an invocation of create-proof-set,                *)
(* get-proof-set-create-status, upload-file or add-roots that fails (exits *)
(* non-zero or cannot be spawned) is answered with an error response and   *)
(* no command is invoked after it, unless its output carries the transient *)
(* bind message.                                                           *)
(* Fails for get-proof-set-create-status, whose error is discarded.        *)
(***************************************************************************)
C14_InvocationErrorTerminal ==
  req.handler = FullFlow =>
    \A i \in Idx :
      /\ log[i].op = "cmd" /\ ~log[i].ok
      /\ ~Contains(log[i].out, TransientMessage)
      => /\ i < Len(log) => IsErrorResponse(log[i + 1])
         /\ \A j \in Idx : j > i => log[j].op # "cmd"

(***************************************************************************)
(* C15: in every handler that stages the stream, a failed copy into the    *)
(* staging file is reported with an error response, upload-file is not     *)
(* invoked after it and the copy is not made again.                        *)
(* Fails in orchestrateHandler and uploadFileHandler, which discard the    *)
(* error of io.Copy.                                                       *)
(***************************************************************************)
C15_CopyFailureTerminal ==
  \A i \in Idx :
    log[i].op = "copy" /\ ~log[i].ok =>
      /\ i < Len(log) =>
            \/ IsErrorResponse(log[i + 1])
            \/ /\ log[i + 1].op = "remove"
               /\ i + 1 < Len(log) => IsErrorResponse(log[i + 2])
      /\ \A j \in Idx : j > i => ~IsCmd(log[j], "upload-file")
      /\ \A j \in Idx : log[j].op = "copy" => j = i

(***************************************************************************)
(* The parsers alone: one output of the tool is drawn, then the parser of  *)
(* one call site is applied to it.                                         *)
(***************************************************************************)
\* the longest output drawn, counted in pieces
MaxTokens == 4

\* the texts made of at most n pieces of T
RECURSIVE Concats(_, _)
Concats(T, n) ==
  IF n = 0 THEN {""}
  ELSE LET S == Concats(T, n - 1) IN S \cup { s \o t : s \in S, t \in T }

\* outputs of create-proof-set
CreateOutputs ==
  Concats({"Location: /pdp/proof-sets/created/A", "Location:",
           "/pdp/proof-sets/created/", "B", " ", "\n"}, MaxTokens)
    \cup {"Location: .../pdp/proof-sets/created/ABC123"}

\* outputs of get-proof-set-create-status
StatusOutputs ==
  Concats({"ProofSet Created: true", "created: true", "PROOFSET ID: ", "7",
           " ", "\n"}, MaxTokens)
    \cup {"ProofSet Created: true\nProofSet Id: 42"}

\* outputs of upload-file
UploadOutputs == Concats({"c1", ":", " ", "\n"}, MaxTokens)

\* the call sites: the two parsers of orchestrateHandler's first steps, the
\* whole-line parser of the content identifier and its colon variant
ParseSites == {"parseTxHash", "parseProofSetID", "parseRootCIDLine",
               "parseRootCIDColon"}

OutputsAt(site) ==
  CASE site = "parseTxHash"     -> CreateOutputs
    [] site = "parseProofSetID" -> StatusOutputs
    [] OTHER                    -> UploadOutputs

\* no request is being handled
NoRequest ==
  /\ pc = "none"
  /\ req = [handler |-> "", filename |-> "", proofSetID |-> "",
            formOK |-> TRUE, metaOK |-> TRUE, jsonOK |-> TRUE,
            hasFile |-> FALSE]
  /\ txHash = ""
  /\ proofSetID = ""
  /\ count = 0
  /\ tmpPath = ""
  /\ rootCID = ""
  /\ attempt = 0
  /\ arOut = ""
  /\ addRootsSuccess = FALSE
  /\ files = {}
  /\ file_cids = <<>>
  /\ typed = [t \in Tables |-> {}]
  /\ log = <<>>

InitParse ==
  /\ NoRequest
  /\ retry = RetryIdle
  /\ reqs = <<>>
  /\ \E site \in ParseSites : \E out \in OutputsAt(site) :
        parse = [ParseIdle EXCEPT !.site = site, !.buf = out,
                                  !.stage = "input"]

\* orchestrateHandler, "Parse txHash"
ParseTxHash ==
  /\ parse.stage = "input" /\ parse.site = "parseTxHash"
  /\ parse' = [parse EXCEPT !.stage = "parsed",
                            !.val = parseTxHash(parse.buf)]
  /\ UNCHANGED <<handler, retry, reqs>>

\* orchestrateHandler, the body of the poll loop without its sleep:
\* proofSetID is "" before the loop and is assigned under the two tests
ParseProofSetID ==
  /\ parse.stage = "input" /\ parse.site = "parseProofSetID"
  /\ parse' = [parse EXCEPT
                 !.stage = "parsed",
                 !.pending = ~IsCreated(parse.buf),
                 !.val = IF /\ IsCreated(parse.buf)
                            /\ Index(ToLower(parse.buf), IdMarker) >= 0
                           THEN parseProofSetID(parse.buf)
                           ELSE ""]
  /\ UNCHANGED <<handler, retry, reqs>>

\* uploadFileToStorage / uploadAndAddRootHandler and orchestrateHandler:
\* the parse of the content identifier
ParseRootCID ==
  /\ parse.stage = "input"
  /\ parse.site \in {"parseRootCIDLine", "parseRootCIDColon"}
  /\ parse' = [parse EXCEPT
                 !.stage = "parsed",
                 !.val = IF parse.site = "parseRootCIDLine"
                           THEN parseRootCIDLine(parse.buf)
                           ELSE parseRootCIDColon(parse.buf)]
  /\ UNCHANGED <<handler, retry, reqs>>

NextParse ==
  \/ ParseTxHash
  \/ ParseProofSetID
  \/ ParseRootCID

SpecParse == InitParse /\ [][NextParse]_vars

Parsed(site) == parse.site = site /\ parse.stage = "parsed"

(***************************************************************************)
(* C16: parseTxHash gives "" when no line of the output, trimmed, starts   *)
(* with "Location:" and contains "/pdp/proof-sets/created/"; otherwise it  *)
(* gives the trimmed text after the first occurrence of the segment on the *)
(* first such line.                                                        *)
(***************************************************************************)
C16_ParseTxHash ==
  Parsed("parseTxHash") =>
    LET lines == SplitLines(parse.buf)
        seg   == "/pdp/proof-sets/created/"
        match == { i \in 1..Len(lines) :
                     /\ HasPrefix(TrimSpace(lines[i]), "Location:")
                     /\ Occurrences(TrimSpace(lines[i]), seg) # {} }
    IN  /\ match = {} => parse.val = ""
        /\ match # {} =>
              LET line == TrimSpace(lines[Smallest(match)])
                  at   == Smallest(Occurrences(line, seg))
              IN  parse.val =
                    TrimSpace(SubSeq(line, at + Len(seg), Len(line)))
        /\ parse.buf = "Location: .../pdp/proof-sets/created/ABC123" =>
              parse.val = "ABC123"

\* two matching lines: the handle of the first is returned
C16_Witness ==
  /\ Parsed("parseTxHash")
  /\ parse.buf = "Location: /pdp/proof-sets/created/A\n" \o
                 "Location: /pdp/proof-sets/created/A" \o "B"
  /\ parse.val = "A"

\* the text between the first identifier marker of a status output and the
\* end of its line, trimmed, found from the positions of the marker
IdAfterMarker(sout) ==
  LET marker == "proofset id: "
      start  == Smallest(Occurrences(ToLower(sout), marker)) + Len(marker)
      ends   == { q \in start..Len(sout) : Char(sout, q) = "\n" }
      stop   == IF ends = {} THEN Len(sout) ELSE Smallest(ends) - 1
  IN  TrimSpace(SubSeq(sout, start, stop))

HasIdMarker(sout) == Occurrences(ToLower(sout), "proofset id: ") # {}

(***************************************************************************)
(* C17, as stated: the poll signals pending exactly when the status output *)
(* lowered lacks "created: true"; otherwise it returns the trimmed text    *)
(* between the first identifier marker and the end of its line.            *)
(* Fails: an output with "created: true" that is not preceded by           *)
(* "proofset " is taken as pending.                                        *)
(***************************************************************************)
C17_CreatedTrueMarker ==
  Parsed("parseProofSetID") =>
    LET present == Occurrences(ToLower(parse.buf), "created: true") # {}
    IN  /\ parse.pending <=> ~present
        /\ present /\ HasIdMarker(parse.buf) =>
              parse.val = IdAfterMarker(parse.buf)
        /\ parse.buf = "ProofSet Created: true\nProofSet Id: 42" =>
              parse.val = "42"

(***************************************************************************)
(* C17, amended: the poll signals pending exactly when the status output   *)
(* lowered lacks "proofset created: true"; otherwise it returns the        *)
(* trimmed text between the first identifier marker and the end of its     *)
(* line.                                                                   *)
(***************************************************************************)
C17_ProofSetCreatedMarker ==
  Parsed("parseProofSetID") =>
    LET present ==
          Occurrences(ToLower(parse.buf), "proofset created: true") # {}
    IN  /\ parse.pending <=> ~present
        /\ present /\ HasIdMarker(parse.buf) =>
              parse.val = IdAfterMarker(parse.buf)
        /\ parse.buf = "ProofSet Created: true\nProofSet Id: 42" =>
              parse.val = "42"

\* the example of the specification, and an upper-case identifier marker
\* before the created marker
C17_Witness ==
  /\ Parsed("parseProofSetID")
  /\ ~parse.pending
  /\ \/ parse.buf = "ProofSet Created: true\nProofSet Id: 42"
           /\ parse.val = "42"
     \/ parse.buf = "PROOFSET ID: 7\nProofSet Created: true"
           /\ parse.val = "7"

\* the lines of an output that are not blank
LastNonBlankLine(out) ==
  LET lines == SplitLines(out)
      full  == { i \in 1..Len(lines) : TrimSpace(lines[i]) # "" }
  IN  IF full = {} THEN ""
      ELSE lines[CHOOSE i \in full : \A j \in full : j <= i]

(***************************************************************************)
(* C18: at both call sites the content identifier parsed from an upload    *)
(* output parses to itself when given back as a one-line output, and it is *)
(* the last line of the output without its surrounding white space, cut    *)
(* before its first colon at the colon call site.                          *)
(* Fails at the colon call site of orchestrateHandler, which does not trim *)
(* the last line.                                                          *)
(***************************************************************************)
C18_ParseRootCIDIdempotent ==
  /\ Parsed("parseRootCIDLine") =>
        /\ parseRootCIDLine(parse.val) = parse.val
        /\ parse.val = TrimSpace(LastNonBlankLine(parse.buf))
  /\ Parsed("parseRootCIDColon") =>
        /\ parseRootCIDColon(parse.val) = parse.val
        /\ parse.val = BeforeColon(TrimSpace(LastNonBlankLine(parse.buf)))

(***************************************************************************)
(* retryAsync of the demo script alone (src/uploadstuff.js).               *)
(***************************************************************************)
\* the largest number of attempts asked for
MaxAttempts == 4

\* the delays the script asks for, in milliseconds
Delays == {10000, 60000}

\* what one call of fn gives: a value, or one of two errors
FnOutcomes == [ok : {TRUE}, out : {"value"}]
                \cup [ok : {FALSE}, out : {"err1", "err2"}]

\* entries of retry.hist: a call of fn with its outcome, a wait
CallEv(o) == [op |-> "call", ok |-> o.ok, out |-> o.out, ms |-> 0]

WaitEv(ms) == [op |-> "wait", ok |-> TRUE, out |-> "", ms |-> ms]

InitRetry ==
  /\ NoRequest
  /\ parse = ParseIdle
  /\ reqs = <<>>
  /\ \E n \in 0..MaxAttempts : \E d \in Delays :
        retry = [attempts |-> n, delayMs |-> d, i |-> 1,
                 lastError |-> "undefined", pc |-> "loop", result |-> "",
                 hist |-> <<>>]

\* the wait were made after the last attempt too
WaitsAfterEvery(i, attempts) == TRUE

\* the test "if (i < attempts)" of the catch block
WaitsAfter(i, attempts) == i < attempts

\* one iteration of the loop up to its wait: "return await fn()" or the
\* catch block
Invoke ==
  /\ retry.pc = "loop"
  /\ retry.i <= retry.attempts
  /\ \E o \in FnOutcomes :
        IF o.ok
          THEN retry' = [retry EXCEPT !.hist = @ \o <<CallEv(o)>>,
                                      !.result = o.out,
                                      !.pc = "returned"]
          ELSE retry' = [retry EXCEPT
                           !.hist = @ \o <<CallEv(o)>>,
                           !.lastError = o.out,
                           !.pc = IF WaitsAfter(retry.i, retry.attempts)
                                    THEN "wait" ELSE "loop",
                           !.i = IF WaitsAfter(retry.i, retry.attempts)
                                   THEN @ ELSE @ + 1]
  /\ UNCHANGED <<handler, parse, reqs>>

\* await new Promise(r => setTimeout(r, delayMs)), then i++
Wait ==
  /\ retry.pc = "wait"
  /\ retry' = [retry EXCEPT !.hist = @ \o <<WaitEv(retry.delayMs)>>,
                            !.i = @ + 1,
                            !.pc = "loop"]
  /\ UNCHANGED <<handler, parse, reqs>>

\* the loop is over: throw lastError
Throw ==
  /\ retry.pc = "loop"
  /\ retry.i > retry.attempts
  /\ retry' = [retry EXCEPT !.result = retry.lastError, !.pc = "thrown"]
  /\ UNCHANGED <<handler, parse, reqs>>

NextRetry ==
  \/ Invoke
  \/ Wait
  \/ Throw

SpecRetry == InitRetry /\ [][NextRetry]_vars

\* the positions of retry.hist that are calls of fn
Calls == { p \in 1..Len(retry.hist) : retry.hist[p].op = "call" }

(***************************************************************************)
(* C20: retryAsync with attempts >= 1 calls fn at most attempts times; a   *)
(* successful call is the last thing it does and its value is returned;    *)
(* after a failed call other than the attempts-th it waits delayMs and     *)
(* then calls again, after the attempts-th it does not wait; when all the  *)
(* calls failed it throws the error of the last call.                      *)
(***************************************************************************)
C20_RetryAsync ==
  retry.pc # "idle" /\ retry.attempts >= 1 =>
    LET h == retry.hist
        k(p) == Cardinality({ q \in Calls : q <= p })
    IN  /\ Cardinality(Calls) <= retry.attempts
        /\ \A p \in Calls :
              /\ h[p].ok =>
                    /\ p = Len(h)
                    /\ retry.pc = "returned" /\ retry.result = h[p].out
              /\ ~h[p].ok /\ k(p) < retry.attempts =>
                    /\ retry.pc \in {"returned", "thrown"} => p + 1 < Len(h)
                    /\ p < Len(h) => h[p + 1] = WaitEv(retry.delayMs)
                    /\ p + 1 < Len(h) => h[p + 2].op = "call"
              /\ ~h[p].ok /\ k(p) = retry.attempts => p = Len(h)
        /\ \A p \in 1..Len(h) :
              h[p].op = "wait" => p > 1 /\ h[p - 1].op = "call" /\ ~h[p - 1].ok
        /\ retry.pc = "returned" => Len(h) > 0 /\ h[Len(h)].ok
        /\ retry.pc = "thrown" =>
              /\ Cardinality(Calls) = retry.attempts
              /\ \A p \in Calls : ~h[p].ok
              /\ retry.result = h[Len(h)].out

\* three attempts failing with err1, err1, err2: two waits, err2 is thrown
C20_Witness ==
  /\ retry.pc = "thrown"
  /\ retry.attempts = 3
  /\ Len(retry.hist) = 5
  /\ retry.hist[1].out = "err1" /\ retry.hist[3].out = "err1"
  /\ retry.hist[5].out = "err2"
  /\ retry.result = "err2"

(***************************************************************************)
(* Two requests at once.  gin serves each request in its own goroutine;    *)
(* both are valid uploads to uploadAndAddPaperHandler, taken from the call *)
(* of uploadFileToStorage on.  The temporary directory and the tables are  *)
(* shared, everything else is local to the request.                        *)
(***************************************************************************)
Requests == {1, 2}

PairHandler == "uploadAndAddPaperHandler"

\* the file name of each request: one plain, one encrypted
PairFilename(r) == IF r = 1 THEN "a.txt" ELSE "B.Enc"

\* the names os.CreateTemp can give
TempNames == {"pdp-upload-1", "pdp-upload-2"}

\* the name were it not checked against the directory
FreshNamesAny(dir) == TempNames

\* os.CreateTemp opens with O_EXCL: the name is none of the directory's
FreshNames(dir) == TempNames \ dir

PairUploadResults ==
  { Result(FALSE, "upload error"), Result(TRUE, "c1"),
    Result(TRUE, "up\n c2\n") }

\* the locals of request r become those of the record l
Local(r, l) == reqs' = [reqs EXCEPT ![r] = l]

InitPair ==
  /\ pc = "none"
  /\ req = [handler |-> "", filename |-> "", proofSetID |-> "",
            formOK |-> TRUE, metaOK |-> TRUE, jsonOK |-> TRUE,
            hasFile |-> FALSE]
  /\ txHash = ""
  /\ proofSetID = ""
  /\ count = 0
  /\ tmpPath = ""
  /\ rootCID = ""
  /\ attempt = 0
  /\ arOut = ""
  /\ addRootsSuccess = FALSE
  /\ log = <<>>
  /\ parse = ParseIdle
  /\ retry = RetryIdle
  /\ files = {OtherFile}
  /\ \E st \in InitialStores : file_cids = st.file_cids /\ typed = st.typed
  /\ reqs = [r \in Requests |->
               [pc |-> "mktemp", filename |-> PairFilename(r),
                tmpPath |-> "", rootCID |-> "", attempt |-> 0,
                log |-> <<>>]]

\* what a step of one request leaves alone
PairFrame == UNCHANGED <<pc, req, locals, log, parse, retry>>

\* uploadFileToStorage: os.CreateTemp("", "pdp-upload-*")
PairCreateTemp(r) ==
  /\ reqs[r].pc = "mktemp"
  /\ \E ok \in BOOLEAN :
       IF ok
         THEN \E name \in FreshNames(files) :
                /\ files' = files \cup {name}
                /\ Local(r, [reqs[r] EXCEPT
                               !.tmpPath = name,
                               !.pc = "copy",
                               !.log = @ \o <<FileEv("mktemp", name, TRUE)>>])
         ELSE /\ Local(r, [reqs[r] EXCEPT
                             !.pc = "done",
                             !.log = @ \o <<FileEv("mktemp", "", FALSE),
                                            ErrorEv(500, MkTempResponse(PairHandler))>>])
              /\ UNCHANGED files
  /\ UNCHANGED store
  /\ PairFrame

\* uploadFileToStorage: io.Copy; on failure the deferred os.Remove runs
PairCopy(r) ==
  /\ reqs[r].pc = "copy"
  /\ \E ok \in BOOLEAN :
       LET ev == FileEv("copy", reqs[r].tmpPath, ok) IN
       IF ok
         THEN /\ Local(r, [reqs[r] EXCEPT !.pc = "upload",
                                          !.log = @ \o <<ev>>])
              /\ UNCHANGED files
         ELSE /\ Local(r, [reqs[r] EXCEPT
                             !.pc = "done",
                             !.log = @ \o <<ev,
                                            FileEv("remove", reqs[r].tmpPath, TRUE),
                                            ErrorEv(500, "failed to copy file: " \o CopyError)>>])
              /\ files' = files \ {reqs[r].tmpPath}
  /\ UNCHANGED store
  /\ PairFrame

\* uploadFileToStorage: upload-file and the parse of its output; the
\* function returns here, removing the file, unless it has to sleep first
PairUpload(r) ==
  /\ reqs[r].pc = "upload"
  /\ \E res \in PairUploadResults :
       LET ev == [CmdEv("upload-file", res) EXCEPT !.path = reqs[r].tmpPath]
           rm == FileEv("remove", reqs[r].tmpPath, TRUE)
       IN
       CASE ~res.ok ->
              /\ Local(r, [reqs[r] EXCEPT
                             !.pc = "done",
                             !.log = @ \o <<ev, rm,
                                            ErrorEv(500, UploadFailedResponse(PairHandler, res.out))>>])
              /\ files' = files \ {reqs[r].tmpPath}
         [] res.ok /\ IsEncrypted(reqs[r].filename) ->
              /\ Local(r, [reqs[r] EXCEPT
                             !.pc = "settle",
                             !.rootCID = parseRootCIDLine(res.out),
                             !.log = @ \o <<ev>>])
              /\ UNCHANGED files
         [] OTHER ->
              /\ Local(r, [reqs[r] EXCEPT
                             !.pc = "bind",
                             !.attempt = 1,
                             !.rootCID = parseRootCIDLine(res.out),
                             !.log = @ \o <<ev, rm>>])
              /\ files' = files \ {reqs[r].tmpPath}
  /\ UNCHANGED store
  /\ PairFrame

\* uploadFileToStorage: the sleep after the upload of an encrypted file,
\* then the return and its deferred os.Remove
PairSettle(r) ==
  /\ reqs[r].pc = "settle"
  /\ Local(r, [reqs[r] EXCEPT
                 !.pc = "bind",
                 !.attempt = 1,
                 !.log = @ \o <<SleepEv(3),
                                FileEv("remove", reqs[r].tmpPath, TRUE)>>])
  /\ files' = files \ {reqs[r].tmpPath}
  /\ UNCHANGED store
  /\ PairFrame

\* addRootToProofSet: one add-roots invocation and the branch on its result
PairAddRoots(r) ==
  /\ reqs[r].pc = "bind"
  /\ reqs[r].attempt <= maxRetries
  /\ \E res \in AddRootsResults :
       LET ev   == [CmdEv("add-roots", res) EXCEPT !.psid = "ps1",
                                                   !.root = reqs[r].rootCID,
                                                   !.n = reqs[r].attempt]
           step == addRootToProofSet(res, reqs[r].attempt)
       IN
       CASE step = "ok" ->
              Local(r, [reqs[r] EXCEPT !.pc = "insert_typed",
                                       !.log = @ \o <<ev>>])
         [] step = "backoff" ->
              Local(r, [reqs[r] EXCEPT !.pc = "backoff",
                                       !.log = @ \o <<ev>>])
         [] step = "fail" ->
              Local(r, [reqs[r] EXCEPT
                          !.pc = "done",
                          !.log = @ \o <<ev,
                                         ErrorEv(500, BindFailedResponse(PairHandler, res.out))>>])
  /\ UNCHANGED <<files, store>>
  /\ PairFrame

\* addRootToProofSet: time.Sleep(attempt*2 seconds); continue
PairBackoff(r) ==
  /\ reqs[r].pc = "backoff"
  /\ Local(r, [reqs[r] EXCEPT
                 !.pc = "bind",
                 !.attempt = @ + 1,
                 !.log = @ \o <<SleepEv(BackoffSeconds(reqs[r].attempt))>>])
  /\ UNCHANGED <<files, store>>
  /\ PairFrame

\* the INSERT INTO paper were cid not the primary key of the table
PairInsertTypedNoKey(r) ==
  /\ reqs[r].pc = "insert_typed"
  /\ \E ok \in BOOLEAN :
       LET t  == TableOf(PairHandler)
           ev == InsertEv(t, "", reqs[r].rootCID, ok)
       IN
       /\ typed' = IF ok THEN [typed EXCEPT ![t] = @ \cup {reqs[r].rootCID}]
                         ELSE typed
       /\ IF insertTypedStep(ok) = "return"
            THEN Local(r, [reqs[r] EXCEPT
                             !.pc = "done",
                             !.log = @ \o <<ev,
                                            ErrorEv(500, "Failed to save " \o t \o " metadata")>>])
            ELSE Local(r, [reqs[r] EXCEPT !.pc = "insert_file_cids",
                                          !.log = @ \o <<ev>>])
  /\ UNCHANGED <<files, file_cids>>
  /\ PairFrame

\* uploadAndAddPaperHandler: INSERT INTO paper through the shared connection
PairInsertTyped(r) ==
  /\ reqs[r].pc = "insert_typed"
  /\ \E ok \in BOOLEAN :
       LET t  == TableOf(PairHandler)
           ev == InsertEv(t, "", reqs[r].rootCID, ok)
       IN
       /\ reqs[r].rootCID \in typed[t] => ~ok
       /\ typed' = IF ok THEN [typed EXCEPT ![t] = @ \cup {reqs[r].rootCID}]
                         ELSE typed
       /\ IF insertTypedStep(ok) = "return"
            THEN Local(r, [reqs[r] EXCEPT
                             !.pc = "done",
                             !.log = @ \o <<ev,
                                            ErrorEv(500, "Failed to save " \o t \o " metadata")>>])
            ELSE Local(r, [reqs[r] EXCEPT !.pc = "insert_file_cids",
                                          !.log = @ \o <<ev>>])
  /\ UNCHANGED <<files, file_cids>>
  /\ PairFrame

\* uploadAndAddPaperHandler: INSERT INTO file_cids, then the 200 response
PairInsertFileCids(r) ==
  /\ reqs[r].pc = "insert_file_cids"
  /\ \E ok \in BOOLEAN :
       /\ file_cids' = IF ok
                         THEN Append(file_cids, [filename |-> reqs[r].filename,
                                                 cid |-> reqs[r].rootCID])
                         ELSE file_cids
       /\ Local(r, [reqs[r] EXCEPT
                      !.pc = "done",
                      !.log = @ \o <<InsertEv("file_cids", reqs[r].filename,
                                              reqs[r].rootCID, ok),
                                     OkEv("", "ps1", reqs[r].rootCID, "")>>])
  /\ UNCHANGED <<files, typed>>
  /\ PairFrame

NextPair ==
  \/ \E r \in Requests : PairCreateTemp(r)
  \/ \E r \in Requests : PairCopy(r)
  \/ \E r \in Requests : PairUpload(r)
  \/ \E r \in Requests : PairSettle(r)
  \/ \E r \in Requests : PairAddRoots(r)
  \/ \E r \in Requests : PairBackoff(r)
  \/ \E r \in Requests : PairInsertTyped(r)
  \/ \E r \in Requests : PairInsertFileCids(r)

SpecPair == InitPair /\ [][NextPair]_vars

\* request r holds a staging file: created and not yet removed
Staged(r) ==
  LET l == reqs[r].log
  IN  /\ \E i \in 1..Len(l) : l[i].op = "mktemp" /\ l[i].ok
      /\ \A i \in 1..Len(l) : l[i].op # "remove"

\* the entries of both logs that are successful inserts into a table
StoredBy(r, t) ==
  SelectSeq(reqs[r].log,
            LAMBDA e : e.op = "insert" /\ e.name = t /\ e.ok)

(***************************************************************************)
(* C19: of two requests handled at once, each stages into a file of its    *)
(* own that stays in the directory until the request itself removes it;    *)
(* a request removes its own file only; its k-th add-roots carries the     *)
(* counter k, from 1; a backoff sleep of 2k seconds follows exactly its    *)
(* own transient failures on attempts 1 and 2; the tables hold the rows    *)
(* they held plus those either request inserted.                           *)
(***************************************************************************)
C19_Isolation ==
  reqs # <<>> =>
    /\ \A r \in Requests :
          Staged(r) => reqs[r].tmpPath \in files \ {OtherFile}
    /\ \A r, q \in Requests :
          r # q /\ Staged(r) /\ Staged(q) => reqs[r].tmpPath # reqs[q].tmpPath
    /\ files = {OtherFile} \cup { reqs[r].tmpPath : r \in { q \in Requests : Staged(q) } }
    /\ \A r \in Requests :
          LET l  == reqs[r].log
              ar == { i \in 1..Len(l) : IsCmd(l[i], "add-roots") }
              k(i) == Cardinality({ j \in ar : j <= i })
          IN  /\ \A i \in 1..Len(l) :
                    l[i].op = "remove" => l[i].path = reqs[r].tmpPath
              /\ Cardinality({ i \in 1..Len(l) : l[i].op = "remove" }) <= 1
              /\ \A i \in ar :
                    /\ l[i].n = k(i)
                    /\ i < Len(l) =>
                          IF TransientFailure(l[i]) /\ k(i) < 3
                            THEN l[i + 1] = SleepEv(2 * k(i))
                            ELSE ~IsSleep(l[i + 1])
              /\ reqs[r].pc = "bind" => reqs[r].attempt = Cardinality(ar) + 1
    /\ \E st \in InitialStores :
          /\ typed["paper"] =
                st.typed["paper"] \cup
                  UNION { { StoredBy(r, "paper")[i].root :
                              i \in 1..Len(StoredBy(r, "paper")) } :
                          r \in Requests }
          /\ \A t \in Tables \ {"paper"} : typed[t] = st.typed[t]
          /\ \E first \in Requests :
                LET rows(r) == [i \in 1..Len(StoredBy(r, "file_cids")) |->
                                  [filename |-> StoredBy(r, "file_cids")[i].file,
                                   cid |-> StoredBy(r, "file_cids")[i].root]]
                    second == CHOOSE q \in Requests : q # first
                IN  file_cids = st.file_cids \o rows(first) \o rows(second)

\* both requests answered 200: the first after two backoff sleeps, the
\* second, whose file was staged under another name, at its first attempt
C19_Witness ==
  /\ reqs # <<>>
  /\ \A r \in Requests :
        /\ reqs[r].pc = "done"
        /\ IsOkResponse(reqs[r].log[Len(reqs[r].log)])
  /\ reqs[1].tmpPath # reqs[2].tmpPath
  /\ reqs[1].attempt = 3
  /\ \E i, j \in 1..Len(reqs[1].log) :
        reqs[1].log[i] = SleepEv(2) /\ reqs[1].log[j] = SleepEv(4)
  /\ reqs[2].attempt = 1
  /\ Len(file_cids) = 2

(***************************************************************************)
(* C21: a status output with the created marker and without an identifier  *)
(* (no identifier marker, or nothing after it) ends the poll loop: no      *)
(* status invocation follows it, no error is answered for it, the          *)
(* commitment identifier is empty and the flow goes on to stage the file   *)
(* for upload-file.                                                        *)
(***************************************************************************)
C21_ConfirmedUnidentified ==
  req.handler = FullFlow =>
    \A i \in CmdsAt("get-proof-set-create-status") :
      /\ log[i].out \in ReportsCreated
      /\ log[i].out \notin CarriesId \/ ProofSetIDOf[log[i].out] = ""
      => /\ proofSetID = ""
         /\ \A j \in CmdsAt("get-proof-set-create-status") : j <= i
         /\ IF i = Len(log) THEN pc = "mktemp"
                             ELSE log[i + 1].op = "mktemp"
         /\ \A a \in AddRootsAt : log[a].psid = ""

\* created without identifier at the second poll, then upload-file ran
C21_Witness ==
  /\ req.handler = FullFlow
  /\ \E i \in CmdsAt("get-proof-set-create-status") :
        /\ log[i].out = "ProofSet Created: true\n"
        /\ log[i].n = 2
  /\ CmdsAt("upload-file") # {}
  /\ proofSetID = ""

(***************************************************************************)
(* C22: while no status output carries the created marker the full flow    *)
(* stays in its poll loop: each status invocation is followed by a sleep   *)
(* of 3 seconds and then by the next status invocation, however many were  *)
(* made; no response is emitted, no file is staged, neither upload-file    *)
(* nor add-roots is invoked; the loop is left only on a status output with *)
(* the created marker.                                                     *)
(***************************************************************************)
C22_PollsUntilCreated ==
  req.handler = FullFlow =>
    LET st      == CmdsAt("get-proof-set-create-status")
        created == { i \in st : log[i].out \in ReportsCreated }
        polling == pc \in {"poll", "pollsleep"}
    IN  /\ polling => created = {}
        /\ st # {} /\ created = {} => polling
        /\ polling =>
              /\ ~RespondedOk /\ ~RespondedError
              /\ \A j \in Idx :
                    \/ IsCmd(log[j], "create-proof-set")
                    \/ IsCmd(log[j], "get-proof-set-create-status")
                    \/ log[j] = SleepEv(3)
              /\ files = {OtherFile}
        /\ \A i \in st \ created :
              /\ i < Len(log) => log[i + 1] = SleepEv(3)
              /\ i + 1 < Len(log) =>
                    IsCmd(log[i + 2], "get-proof-set-create-status")
              /\ i = Len(log) => pc = "pollsleep"
        /\ \A i \in st : log[i].n = Cardinality({ j \in st : j <= i })

\* as many pending polls as the model allows, the loop still running
C22_Witness ==
  /\ req.handler = FullFlow
  /\ pc = "poll"
  /\ Cardinality(CmdsAt("get-proof-set-create-status")) = MaxPending
  /\ Cardinality({ j \in Idx : log[j] = SleepEv(3) }) = MaxPending
  /\ \A i \in CmdsAt("get-proof-set-create-status") :
        log[i].out \notin ReportsCreated

Responded == RespondedOk \/ RespondedError

\* a request that the claim says is answered: any bind-only request, and a
\* full-flow request once a status output carried the created marker
C23_Due ==
  \/ req.handler \in Binders
  \/ /\ req.handler = FullFlow
     /\ \E i \in CmdsAt("get-proof-set-create-status") :
           log[i].out \in ReportsCreated

\* the request is over and was answered within the claim's counts
C23_Answered ==
  /\ pc = "done"
  /\ Responded
  /\ Cardinality(CmdsAt("upload-file")) <= 1
  /\ Cardinality(AddRootsAt) <= 3

\* a full-flow request that got past create and was answered had a status
\* output carrying the created marker
C23_OnlyIfCreated ==
  ( /\ req.handler = FullFlow
    /\ CmdsAt("get-proof-set-create-status") # {}
    /\ Responded )
  => \E i \in CmdsAt("get-proof-set-create-status") :
        log[i].out \in ReportsCreated

\* C23: when every command and store call returns, a bind-only request is
\* eventually answered, after at most one upload-file and at most three
\* add-roots invocations; a full-flow request past create is eventually
\* answered if a status output carries the created marker, and is answered
\* only if one did
C23_Termination ==
  /\ C23_Due ~> C23_Answered
  /\ []C23_OnlyIfCreated

\* uploadAndAddRootHandler answered after its third add-roots
C23_Witness ==
  /\ req.handler = BindOnly
  /\ pc = "done"
  /\ Cardinality(AddRootsAt) = 3
  /\ Cardinality(CmdsAt("upload-file")) = 1
  /\ Responded

(***************************************************************************)
(* One upload per request.                                                 *)
(***************************************************************************)

\* where the log creates a staging file
MkTempsAt == { i \in Idx : log[i].op = "mktemp" }

\* C24: a request creates at most one staging file and invokes upload-file
\* at most once, on that file; once add-roots has been invoked nothing is
\* staged or uploaded again, and every add-roots of the request passes the
\* same content identifier and the same proof set identifier
C24_OneUpload ==
  /\ Cardinality(MkTempsAt) <= 1
  /\ Cardinality(CmdsAt("upload-file")) <= 1
  /\ \A u \in CmdsAt("upload-file") :
        \E m \in MkTempsAt :
           m < u /\ log[m].ok /\ log[m].path = log[u].path /\ log[u].path # ""
  /\ \A a \in AddRootsAt :
        /\ \A j \in Idx : j > a => /\ j \notin MkTempsAt
                                   /\ j \notin CmdsAt("upload-file")
                                   /\ log[j].op # "copy"
        /\ \E u \in CmdsAt("upload-file") : u < a /\ log[u].ok
        /\ \A b \in AddRootsAt : /\ log[a].root = log[b].root
                                  /\ log[a].psid = log[b].psid

\* a typed handler that bound at its second attempt, after one upload
C24_Witness ==
  /\ req.handler \in Typed
  /\ pc = "done"
  /\ Cardinality(AddRootsAt) = 2
  /\ \E a \in AddRootsAt : log[a].ok
  /\ Cardinality(CmdsAt("upload-file")) = 1
  /\ Cardinality(MkTempsAt) = 1

(***************************************************************************)
(* Binding with an empty identifier.                                       *)
(***************************************************************************)

\* C25: add-roots is never invoked with an empty --root nor with an empty
\* --proof-set-id, in any handler
C25_NoEmptyBind ==
  \A a \in AddRootsAt : log[a].root # "" /\ log[a].psid # ""

(***************************************************************************)
(* The two add-roots loops side by side.                                   *)
(***************************************************************************)

\* C26: at every attempt a binding request reaches, and for every result
\* add-roots can give there, the inline loop of uploadAndAddRootHandler and
\* addRootToProofSet take the same branch (succeed, sleep and retry, or
\* fail), so they invoke add-roots equally often, sleep at the same
\* positions and agree on success
C26_LoopsAgree ==
  (req.handler \in Binders /\ pc = "bind") =>
     \A res \in AddRootsResults :
        inlineAddRoots(res, attempt) = addRootToProofSet(res, attempt)

(***************************************************************************)
(* One response per request.                                               *)
(***************************************************************************)

\* where the log answers the request
ResponsesAt == { i \in Idx : log[i].op = "respond" }

\* the for statement of an add-roots loop has run out: the state in which
\* the code after the loop (the addRootsSuccess test of
\* uploadAndAddRootHandler, the final return of addRootToProofSet) would run
LoopRanOut == pc = "bind" /\ attempt > maxRetries

\* C27: uploadAndAddRootHandler, the typed handlers and orchestrateHandler
\* answer at most once, and exactly once when they are over, with nothing
\* after the answer but the removal of the staging file; a success answer
\* follows a successful add-roots of the request; and no add-roots loop
\* runs out, so the code behind the loops is never reached
C27_OneResponse ==
  req.handler \in Binders \cup {FullFlow} =>
    /\ Cardinality(ResponsesAt) <= 1
    /\ pc = "done" => Cardinality(ResponsesAt) = 1
    /\ \A i \in ResponsesAt :
          /\ pc \in {"return", "done"}
          /\ \A j \in Idx : j > i => log[j].op = "remove"
          /\ IsOkResponse(log[i]) =>
                \E a \in AddRootsAt : a < i /\ log[a].ok
    /\ ~LoopRanOut
    /\ attempt <= maxRetries

\* uploadAndAddRootHandler over with its single answer, the error of the
\* third failed add-roots
C27_Witness ==
  /\ req.handler = BindOnly
  /\ pc = "done"
  /\ Cardinality(AddRootsAt) = maxRetries
  /\ \A a \in AddRootsAt : ~log[a].ok
  /\ Cardinality(ResponsesAt) = 1
  /\ RespondedError

(***************************************************************************)
(* The typed tables.                                                       *)
(***************************************************************************)

\* the store held the rows of an earlier upload when the requests began
Preloaded == Len(file_cids) > 0 /\ file_cids[1].filename = "old.txt"

\* the rows of table t with content identifier cid: the one the store began
\* with, and one for every INSERT of either request that succeeded
TypedRows(t, cid) ==
  (IF Preloaded /\ cid = "c1" THEN 1 ELSE 0)
  + Cardinality(UNION { { <<r, i>> : i \in { j \in 1..Len(reqs[r].log) :
                                                 /\ reqs[r].log[j].op = "insert"
                                                 /\ reqs[r].log[j].name = t
                                                 /\ reqs[r].log[j].root = cid
                                                 /\ reqs[r].log[j].ok } } :
                        r \in Requests })

\* the content identifiers the requests can come by
PairCids == { parseRootCIDLine(res.out) : res \in PairUploadResults }

\* request r was refused by the typed table: its INSERT failed
Refused(r) ==
  \E i \in 1..Len(reqs[r].log) :
     /\ reqs[r].log[i].op = "insert"
     /\ reqs[r].log[i].name \in Tables
     /\ ~reqs[r].log[i].ok

\* C28: each typed table holds at most one row per content identifier, and
\* exactly the identifiers inserted; a request writes to file_cids only
\* after its own typed INSERT succeeded; a request whose content identifier
\* is already stored has run upload-file and add-roots, is refused by the
\* typed table, writes no row to either table and ends in an error response
C28_TypedRecords ==
  reqs # <<>> =>
    LET t == TableOf(PairHandler) IN
    /\ \A cid \in PairCids :
          /\ TypedRows(t, cid) <= 1
          /\ cid \in typed[t] <=> TypedRows(t, cid) = 1
    /\ \A r \in Requests :
          LET l == reqs[r].log IN
          /\ \A i \in 1..Len(l) :
                (l[i].op = "insert" /\ l[i].name = "file_cids") =>
                   \E j \in 1..(i - 1) :
                      /\ l[j].op = "insert" /\ l[j].name = t /\ l[j].ok
                      /\ l[j].root = l[i].root
          /\ \A i \in 1..Len(l) :
                ( /\ l[i].op = "insert" /\ l[i].name = t
                  /\ TypedRows(t, l[i].root) = 1
                  /\ ~l[i].ok ) =>
                   /\ \E u \in 1..(i - 1) : IsCmd(l[u], "upload-file") /\ l[u].ok
                   /\ \E a \in 1..(i - 1) : IsCmd(l[a], "add-roots") /\ l[a].ok
                   /\ \A j \in 1..Len(l) : l[j].op = "insert" => j = i
                   /\ Len(l) = i + 1
                   /\ IsErrorResponse(l[i + 1])
                   /\ reqs[r].pc = "done"
          /\ ( /\ reqs[r].pc \in {"insert_file_cids", "done"}
               /\ \E a \in 1..Len(l) : IsCmd(l[a], "add-roots") /\ l[a].ok
               /\ ~Refused(r) ) =>
                \E j \in 1..Len(l) :
                   l[j].op = "insert" /\ l[j].name = t /\ l[j].ok

\* two uploads of the same content: the first stored its rows, the second
\* uploaded and bound again and was refused
C28_Witness ==
  /\ reqs # <<>>
  /\ ~Preloaded
  /\ \A r \in Requests : reqs[r].pc = "done" /\ reqs[r].rootCID = "c1"
  /\ ~Refused(1)
  /\ Refused(2)
  /\ \E a \in 1..Len(reqs[2].log) :
        IsCmd(reqs[2].log[a], "add-roots") /\ reqs[2].log[a].ok
  /\ typed[TableOf(PairHandler)] = {"c1"}
  /\ Len(file_cids) = 1

(***************************************************************************)
(* The identifiers of a success response.                                  *)
(***************************************************************************)

\* C29: in a request answered with success, the rootCID of the answer is
\* the --root of every add-roots of the request and the content identifier
\* of every row the request inserted; its proofSetID is the --proof-set-id
\* of every add-roots; and in the full flow its txHash is the --tx-hash of
\* every status invocation
C29_SameIdentifiers ==
  \A i \in ResponsesAt :
    (IsOkResponse(log[i]) /\ req.handler \in Binders \cup {FullFlow}) =>
      /\ AddRootsAt # {}
      /\ \A a \in AddRootsAt : /\ log[a].root = log[i].root
                                /\ log[a].psid = log[i].psid
      /\ \A j \in Idx : log[j].op = "insert" => log[j].root = log[i].root
      /\ (\E j \in Idx : log[j].op = "insert" /\ log[j].name = "file_cids"
                                                /\ log[j].ok) =>
            Last(file_cids).cid = log[i].root
      /\ \A t \in Tables :
            (\E j \in Idx : log[j].op = "insert" /\ log[j].name = t /\ log[j].ok) =>
               log[i].root \in typed[t]
      /\ req.handler = FullFlow =>
            /\ CmdsAt("get-proof-set-create-status") # {}
            /\ \A p \in CmdsAt("get-proof-set-create-status") :
                  log[p].tx = log[i].tx

\* the full flow answered with success after a pending poll, all three
\* identifiers at hand
C29_Witness ==
  /\ req.handler = FullFlow
  /\ RespondedOk
  /\ Cardinality(CmdsAt("get-proof-set-create-status")) >= 2
  /\ \E i \in ResponsesAt : log[i].tx # "" /\ log[i].psid # "" /\ log[i].root # ""

====
